---- MODULE Spec2Model ----
(***************************************************************************)
(* Model of osd_text_extractor: the PlainText domain entity (construction  *)
(* check and the _clean / to_str normalisation pipeline) and the extractor  *)
(* lookup (ExtractorFactory.get_extractor).                                *)
(*                                                                         *)
(* A Python str is modelled as a sequence of one-character strings.        *)
(* Characters that cannot be written in a TLA+ string literal are named by *)
(* their code point ("U+044F" is the Cyrillic letter ya).                   *)
(***************************************************************************)
EXTENDS Integers, Sequences, FiniteSets, TLC

VARIABLES arg, pc, value, result, err, cleanRuns,
          srcMapping, registry, fpc, fmt, found, ferr, built,
          upc, ufactory, ufmt, ucontent, ulog, uraw, uraised, uout,
          dbytes, dhost, dpc, dtext, dencoding,
          xfmt, xbytes, xpad, xhost, xlib, xlibtext, xjson, xtree, xpc, xout,
          oarg, odone, oplain, omain,
          acontent, afmt, acreate, aget, aexec, aclose, apc, acreated, aclosed,
          apending, aout,
          cargs, chost, cmapping, cpc, cregistry, cextractor, craw, cpending, cout

vars == <<arg, pc, value, result, err, cleanRuns,
          srcMapping, registry, fpc, fmt, found, ferr, built,
          upc, ufactory, ufmt, ucontent, ulog, uraw, uraised, uout,
          dbytes, dhost, dpc, dtext, dencoding,
          xfmt, xbytes, xpad, xhost, xlib, xlibtext, xjson, xtree, xpc, xout,
          oarg, odone, oplain, omain,
          acontent, afmt, acreate, aget, aexec, aclose, apc, acreated, aclosed,
          apending, aout,
          cargs, chost, cmapping, cpc, cregistry, cextractor, craw, cpending, cout>>

ptVars == <<arg, pc, value, result, err, cleanRuns>>
\* built is a history variable: the content the source mapping had when
\* the factory was constructed
lookupVars == <<srcMapping, registry, fpc, fmt, found, ferr, built>>
\* uraised is a history variable: the error as the failing stage raised it
ucVars == <<upc, ufactory, ufmt, ucontent, ulog, uraw, uraised, uout>>

\* what the actions of one component leave alone
decVars == <<dbytes, dhost, dpc, dtext, dencoding>>

exVars == <<xfmt, xbytes, xpad, xhost, xlib, xlibtext, xjson, xtree, xpc, xout>>

ordVars == <<oarg, odone, oplain, omain>>
callVars == <<cargs, chost, cmapping, cpc, cregistry, cextractor, craw, cpending, cout>>
faVars == <<acontent, afmt, acreate, aget, aexec, aclose, apc, acreated, aclosed,
            apending, aout>>

notPtVars == <<lookupVars, ucVars, decVars, exVars, ordVars, faVars, callVars>>
notLookupVars == <<ptVars, ucVars, decVars, exVars, ordVars, faVars, callVars>>
notUcVars == <<ptVars, lookupVars, decVars, exVars, ordVars, faVars, callVars>>
notDecVars == <<ptVars, lookupVars, ucVars, exVars, ordVars, faVars, callVars>>
notExVars == <<ptVars, lookupVars, ucVars, decVars, ordVars, faVars, callVars>>
notOrdVars == <<ptVars, lookupVars, ucVars, decVars, exVars, faVars, callVars>>
notFaVars == <<ptVars, lookupVars, ucVars, decVars, exVars, ordVars, callVars>>
notCallVars == <<ptVars, lookupVars, ucVars, decVars, exVars, ordVars, faVars>>

(***************************************************************************)
(* Bounds of the model.                                                    *)
(***************************************************************************)
\* longest input string handed to PlainText
MaxLen == 5
\* longest format name handed to get_extractor
MaxFmtLen == 2
\* longest byte string handed to decode_to_utf8
MaxBytes == 4
\* longest text whose UTF-8 encoding is decoded again
MaxTextLen == 2
\* the number of extract_text calls that run side by side
MaxCalls == 2
\* deepest chain of nested elements of a parsed XML document
MaxTreeDepth == 52
\* most nodes (values and containers) of a parsed JSON document
MaxJsonNodes == 4

(***************************************************************************)
(* Character classes (string.ascii_letters, string.digits,                 *)
(* string.punctuation) and the whitespace of str.strip().                  *)
(***************************************************************************)
ascii_lowercase ==
    {"a","b","c","d","e","f","g","h","i","j","k","l","m",
     "n","o","p","q","r","s","t","u","v","w","x","y","z"}

ascii_uppercase ==
    {"A","B","C","D","E","F","G","H","I","J","K","L","M",
     "N","O","P","Q","R","S","T","U","V","W","X","Y","Z"}

ascii_letters == ascii_lowercase \cup ascii_uppercase

digits == {"0","1","2","3","4","5","6","7","8","9"}

\* the 32 characters of string.punctuation ("U+0060" is the grave accent)
punctuation ==
    {"!","\"","#","$","%","&","'","(",")","*","+",",","-",".","/",
     ":",";","<","=",">","?","@","[","\\","]","^","_","U+0060","{","|","}","~"}

\* the characters str.strip() removes when called without argument
\* (U+000B vertical tab and U+00A0 no-break space stand for the
\* whitespace that is neither ASCII space, tab, newline, CR nor FF)
StripWhitespace == {" ", "\t", "\n", "\r", "\f", "U+000B", "U+00A0"}

\* a filter that, like the expectations of the misplaced test file
\* _odt.py, also removes punctuation
CleanValid_no_punctuation == ascii_letters \cup digits \cup {" "}

\* the characters the filter of PlainText._clean keeps (line 21)
CleanValid == ascii_letters \cup digits \cup punctuation \cup {" "}

\* the allowed alphabet of the normalised text (main.py, line 6)
valid_characters == ascii_letters \cup digits \cup punctuation \cup {" ", "\n"}

\* the characters the inputs of the model are drawn from: a letter, a
\* digit, a punctuation sign, the space, newline, tab, the no-break space
\* and a non-Latin letter
InputChars == {"a", "1", "!", " ", "\n", "\t", "U+00A0", "U+044F"}

\* every string of at most MaxLen characters
InputStrings == UNION {[1..n -> InputChars] : n \in 0..MaxLen}

(***************************************************************************)
(* String helpers, computed the way the Python calls compute them.         *)
(***************************************************************************)
RECURSIVE DropWhileIn(_, _)
DropWhileIn(s, cls) ==
    IF s = << >> THEN << >>
    ELSE IF Head(s) \in cls THEN DropWhileIn(Tail(s), cls)
    ELSE s

\* re.sub('[cls]+', rep, s): every maximal run of characters of cls is
\* replaced by the one character rep
RECURSIVE ReSubRuns(_, _, _)
ReSubRuns(s, cls, rep) ==
    IF s = << >> THEN << >>
    ELSE IF Head(s) \in cls
         THEN <<rep>> \o ReSubRuns(DropWhileIn(Tail(s), cls), cls, rep)
         ELSE <<Head(s)>> \o ReSubRuns(Tail(s), cls, rep)

RECURSIVE RStrip(_)
RStrip(s) ==
    IF s = << >> THEN << >>
    ELSE IF s[Len(s)] \in StripWhitespace THEN RStrip(SubSeq(s, 1, Len(s) - 1))
    ELSE s

\* str.strip()
Strip(s) == RStrip(DropWhileIn(s, StripWhitespace))

\* "".join([i for i in text if i in valid])
KeepOnly(s, valid) == SelectSeq(s, LAMBDA c : c \in valid)

(***************************************************************************)
(* PlainText                                                               *)
(***************************************************************************)
NoError == [class |-> "none", msg |-> "none"]

\* the error __post_init__ raises
PostInitError ==
    [class |-> "TextLengthError", msg |-> "Text length should be greater than zero"]

\* the error to_str raises
ToStrError ==
    [class |-> "TextLengthError", msg |-> "Text length should be greater than zero"]

\* a construction check that forgets to strip: only "" is rejected
PostInitRejects_no_strip(v) == Len(v) <= 0

\* the condition under which __post_init__ raises
PostInitRejects(v) == Len(Strip(v)) <= 0

\* a _clean that stops after strip() and never filters
Clean_no_filter(v) ==
    LET t1 == ReSubRuns(v, {"\t", "\r", "\f"}, " ")
        t2 == ReSubRuns(t1, {" "}, " ")
        t3 == ReSubRuns(t2, {"\n"}, "\n")
    IN  Strip(t3)

\* PlainText._clean
Clean(v) ==
    LET t1 == ReSubRuns(v, {"\t", "\r", "\f"}, " ")
        t2 == ReSubRuns(t1, {" "}, " ")
        t3 == ReSubRuns(t2, {"\n"}, "\n")
        t4 == Strip(t3)
    IN  KeepOnly(t4, CleanValid)

\* a _clean of main.py that runs the steps in the order of PlainText._clean
MainClean_collapse_first(v) == Clean(v)

\* _clean of main.py: filter, then collapse
MainClean(v) ==
    LET t1 == ReSubRuns(v, {"\t", "\r", "\f"}, " ")
        t2 == KeepOnly(t1, valid_characters)
        t3 == ReSubRuns(t2, {" "}, " ")
        t4 == ReSubRuns(t3, {"\n"}, "\n")
    IN  Strip(t4)

\* the characters the inputs of the two _clean functions are drawn from
OrderChars == {"a", "!", " ", "\n", "\t", "U+044F"}

\* every string of at most MaxLen of these characters
OrderStrings == UNION {[1..n -> OrderChars] : n \in 0..MaxLen}

OrdersInit ==
    /\ oarg \in OrderStrings
    /\ odone = {}
    /\ oplain = << >>
    /\ omain = << >>

OrdersIdle ==
    /\ oarg = << >>
    /\ odone = {"idle"}
    /\ oplain = << >>
    /\ omain = << >>

\* PlainText._clean on oarg
RunPlainTextClean ==
    /\ "idle" \notin odone /\ "plain" \notin odone
    /\ oplain' = Clean(oarg)
    /\ odone' = odone \cup {"plain"}
    /\ UNCHANGED <<oarg, omain>>
    /\ UNCHANGED notOrdVars

\* main._clean on oarg
RunMainClean ==
    /\ "idle" \notin odone /\ "main" \notin odone
    /\ omain' = MainClean(oarg)
    /\ odone' = odone \cup {"main"}
    /\ UNCHANGED <<oarg, oplain>>
    /\ UNCHANGED notOrdVars

\* PlainText(v).to_str() as one function of v
PlainTextOutcome(v) ==
    IF PostInitRejects(v)
    THEN [kind |-> "raise", at |-> "construction", error |-> PostInitError, text |-> << >>]
    ELSE IF Len(Clean(v)) = 0
    THEN [kind |-> "raise", at |-> "to_str", error |-> ToStrError, text |-> << >>]
    ELSE [kind |-> "return", at |-> "to_str", error |-> NoError, text |-> Clean(v)]

(***************************************************************************)
(* ExtractorFactory (extractor lookup)                                     *)
(***************************************************************************)
\* the extractor classes a mapping can name
Extractors == {"TXTExtractor", "PDFExtractor"}

\* the characters format names are drawn from
FmtChars == {"t", "T", "1"}

\* every format name of at most MaxFmtLen characters
FmtNames == UNION {[1..n -> FmtChars] : n \in 0..MaxFmtLen}

\* the mappings a caller can hand to ExtractorFactory: at most two keys
SourceMappings ==
    UNION {[D -> Extractors] : D \in {{}} \cup {{a, b} : a \in FmtNames, b \in FmtNames}}

UpperSeq ==
    <<"A","B","C","D","E","F","G","H","I","J","K","L","M",
      "N","O","P","Q","R","S","T","U","V","W","X","Y","Z">>

LowerSeq ==
    <<"a","b","c","d","e","f","g","h","i","j","k","l","m",
      "n","o","p","q","r","s","t","u","v","w","x","y","z">>

\* str.lower() on one character
LowerChar(c) ==
    IF \E i \in 1..Len(UpperSeq) : UpperSeq[i] = c
    THEN LowerSeq[CHOOSE i \in 1..Len(UpperSeq) : UpperSeq[i] = c]
    ELSE c

\* str.lower()
Lower(s) == [i \in 1..Len(s) |-> LowerChar(s[i])]

NoLookupError == [class |-> "none", msg |-> << >>]

\* an error message built from the lowercased lookup key
UnsupportedFormatError_lowered(f) ==
    [class |-> "UnsupportedFormatError", msg |-> <<"Unsupported format: ">> \o Lower(f)]

\* UnsupportedFormatError(f"Unsupported format: {f}")
UnsupportedFormatError(f) ==
    [class |-> "UnsupportedFormatError", msg |-> <<"Unsupported format: ">> \o f]

\* a lookup that uses the format name as given
LookupKey_no_lower(f) == f

\* the key get_extractor looks up
LookupKey(f) == Lower(f)

\* get_extractor(f) on the registry m as one function
GetExtractorOutcome(m, f) ==
    IF LookupKey(f) \in DOMAIN m
    THEN [kind |-> "return", extractor |-> m[LookupKey(f)], error |-> NoLookupError]
    ELSE [kind |-> "raise", extractor |-> "none", error |-> UnsupportedFormatError(f)]

EmptyMap == [k \in {} |-> "none"]

\* a factory that keeps the caller's dict object instead of a copy
FactoryMapping_alias(own, source) == source

\* the dict object get_extractor reads: the copy made at construction
FactoryMapping(own, source) == own

\* most keys the caller's mapping holds while it is being mutated
MaxSrcKeys == 2

\* the keys later insertions into the caller's mapping use
MutationKeys == UNION {[1..n -> FmtChars] : n \in 0..1}

\* the mappings a factory is built from before its source is mutated
IsolationMappings ==
    UNION {[D -> Extractors] : D \in {{}} \cup {{a} : a \in MutationKeys}}

\* the mappings with at most one key
SmallMappings ==
    UNION {[D -> Extractors] : D \in {{}} \cup {{a} : a \in FmtNames}}

(***************************************************************************)
(* State machine                                                           *)
(***************************************************************************)
PlainTextInit ==
    /\ arg \in InputStrings
    /\ pc = "new"
    /\ value = << >>
    /\ result = << >>
    /\ err = NoError
    /\ cleanRuns = 0

PlainTextIdle ==
    /\ arg = << >>
    /\ pc = "idle"
    /\ value = << >>
    /\ result = << >>
    /\ err = NoError
    /\ cleanRuns = 0

LookupInit ==
    /\ srcMapping \in SourceMappings
    /\ registry = EmptyMap
    /\ fpc = "new"
    /\ fmt = << >>
    /\ found = "none"
    /\ ferr = NoLookupError
    /\ built = EmptyMap

LookupIdle ==
    /\ srcMapping = EmptyMap
    /\ registry = EmptyMap
    /\ fpc = "idle"
    /\ fmt = << >>
    /\ found = "none"
    /\ ferr = NoLookupError
    /\ built = EmptyMap

(***************************************************************************)
(* decode_to_utf8                                                           *)
(*                                                                         *)
(* A bytes object is a sequence of numbers 0..255; a decoded str is the    *)
(* sequence of its code points.                                            *)
(***************************************************************************)
\* the byte values the inputs of the model are drawn from: NUL, "A", the
\* UTF-8 continuation bytes 0x98 and 0xBF (0x98 is undefined in
\* windows-1251), the UTF-8 lead byte 0xD0, the UTF-16 surrogate high
\* bytes 0xD8 and 0xDC, and the byte order mark bytes 0xFE and 0xFF
DecodeBytes == {0, 65, 152, 191, 208, 216, 220, 254, 255}

\* every byte string of at most MaxBytes bytes
ByteStrings == UNION {[1..n -> DecodeBytes] : n \in 0..MaxBytes}

DecodeOk(t) == [ok |-> TRUE, text |-> t]
DecodeFail == [ok |-> FALSE, text |-> << >>]

IsCont(x) == x \in 128..191

\* the values the second byte of a UTF-8 sequence may take after lead
Utf8Second(lead) ==
    IF lead = 224 THEN 160..191
    ELSE IF lead = 237 THEN 128..159
    ELSE IF lead = 240 THEN 144..191
    ELSE IF lead = 244 THEN 128..143
    ELSE 128..191

\* the length of the well-formed UTF-8 sequence b starts with, 0 if none
Utf8SeqLen(b) ==
    IF b[1] <= 127 THEN 1
    ELSE IF b[1] \in 194..223 /\ Len(b) >= 2 /\ IsCont(b[2]) THEN 2
    ELSE IF /\ b[1] \in 224..239 /\ Len(b) >= 3
            /\ b[2] \in Utf8Second(b[1]) /\ IsCont(b[3]) THEN 3
    ELSE IF /\ b[1] \in 240..244 /\ Len(b) >= 4
            /\ b[2] \in Utf8Second(b[1]) /\ IsCont(b[3]) /\ IsCont(b[4]) THEN 4
    ELSE 0

\* the code point of the well-formed UTF-8 sequence of n bytes b starts with
Utf8CodePoint(b, n) ==
    IF n = 1 THEN b[1]
    ELSE IF n = 2 THEN (b[1] % 32) * 64 + (b[2] % 64)
    ELSE IF n = 3 THEN (b[1] % 16) * 4096 + (b[2] % 64) * 64 + (b[3] % 64)
    ELSE (b[1] % 8) * 262144 + (b[2] % 64) * 4096 + (b[3] % 64) * 64 + (b[4] % 64)

\* bytes.decode("utf-8")
RECURSIVE Utf8Decode(_)
Utf8Decode(b) ==
    IF b = << >> THEN DecodeOk(<< >>)
    ELSE LET n == Utf8SeqLen(b)
         IN  IF n = 0 THEN DecodeFail
             ELSE LET rest == Utf8Decode(SubSeq(b, n + 1, Len(b)))
                  IN  IF rest.ok
                      THEN DecodeOk(<<Utf8CodePoint(b, n)>> \o rest.text)
                      ELSE DecodeFail

\* how many bytes one U+FFFD stands for at the head of an ill-formed b:
\* the longest prefix that starts a well-formed sequence, at least one
Utf8BadLen(b) ==
    IF /\ b[1] \in 224..239 /\ Len(b) >= 2 /\ b[2] \in Utf8Second(b[1]) THEN 2
    ELSE IF /\ b[1] \in 240..244 /\ Len(b) >= 3
            /\ b[2] \in Utf8Second(b[1]) /\ IsCont(b[3]) THEN 3
    ELSE IF /\ b[1] \in 240..244 /\ Len(b) >= 2 /\ b[2] \in Utf8Second(b[1]) THEN 2
    ELSE 1

\* bytes.decode("utf-8", errors="replace")
RECURSIVE Utf8DecodeReplace(_)
Utf8DecodeReplace(b) ==
    IF b = << >> THEN << >>
    ELSE LET n == Utf8SeqLen(b)
         IN  IF n = 0
             THEN <<65533>> \o Utf8DecodeReplace(SubSeq(b, Utf8BadLen(b) + 1, Len(b)))
             ELSE <<Utf8CodePoint(b, n)>> \o Utf8DecodeReplace(SubSeq(b, n + 1, Len(b)))

\* the 16-bit code units of b in the given byte order
Utf16Units(b, order) ==
    [i \in 1..(Len(b) \div 2) |->
        IF order = "little" THEN b[2 * i - 1] + 256 * b[2 * i]
        ELSE 256 * b[2 * i - 1] + b[2 * i]]

\* the code points of a sequence of UTF-16 code units
RECURSIVE Utf16FromUnits(_)
Utf16FromUnits(u) ==
    IF u = << >> THEN DecodeOk(<< >>)
    ELSE IF u[1] \in 55296..56319
    THEN IF Len(u) >= 2 /\ u[2] \in 56320..57343
         THEN LET rest == Utf16FromUnits(SubSeq(u, 3, Len(u)))
              IN  IF rest.ok
                  THEN DecodeOk(<<65536 + (u[1] - 55296) * 1024 + (u[2] - 56320)>>
                                \o rest.text)
                  ELSE DecodeFail
         ELSE DecodeFail
    ELSE IF u[1] \in 56320..57343 THEN DecodeFail
    ELSE LET rest == Utf16FromUnits(Tail(u))
         IN  IF rest.ok THEN DecodeOk(<<u[1]>> \o rest.text) ELSE DecodeFail

\* bytes.decode("utf-16"): a leading byte order mark selects the order and
\* is dropped, without one the order is the host's
Utf16Decode(b, host) ==
    LET bom == IF Len(b) >= 2 /\ b[1] = 255 /\ b[2] = 254 THEN "little"
               ELSE IF Len(b) >= 2 /\ b[1] = 254 /\ b[2] = 255 THEN "big"
               ELSE "none"
        order == IF bom = "none" THEN host ELSE bom
        body == IF bom = "none" THEN b ELSE SubSeq(b, 3, Len(b))
    IN  IF Len(body) % 2 = 1 THEN DecodeFail
        ELSE Utf16FromUnits(Utf16Units(body, order))

\* the code points of the bytes 0x80..0xFF in windows-1251 (-1: undefined)
Cp1251High ==
    <<1026, 1027, 8218, 1107, 8222, 8230, 8224, 8225, 8364, 8240, 1033, 8249,
      1034, 1036, 1035, 1039, 1106, 8216, 8217, 8220, 8221, 8226, 8211, 8212,
      -1, 8482, 1113, 8250, 1114, 1116, 1115, 1119, 160, 1038, 1118, 1032,
      164, 1168, 166, 167, 1025, 169, 1028, 171, 172, 173, 174, 1031, 176,
      177, 1030, 1110, 1169, 181, 182, 183, 1105, 8470, 1108, 187, 1112, 1029,
      1109, 1111, 1040, 1041, 1042, 1043, 1044, 1045, 1046, 1047, 1048, 1049,
      1050, 1051, 1052, 1053, 1054, 1055, 1056, 1057, 1058, 1059, 1060, 1061,
      1062, 1063, 1064, 1065, 1066, 1067, 1068, 1069, 1070, 1071, 1072, 1073,
      1074, 1075, 1076, 1077, 1078, 1079, 1080, 1081, 1082, 1083, 1084, 1085,
      1086, 1087, 1088, 1089, 1090, 1091, 1092, 1093, 1094, 1095, 1096, 1097,
      1098, 1099, 1100, 1101, 1102, 1103>>

Cp1251Char(x) == IF x <= 127 THEN x ELSE Cp1251High[x - 127]

\* bytes.decode("windows-1251")
Cp1251Decode(b) ==
    IF \E i \in 1..Len(b) : Cp1251Char(b[i]) = -1 THEN DecodeFail
    ELSE DecodeOk([i \in 1..Len(b) |-> Cp1251Char(b[i])])

\* a last decoder that rejects the bytes above 0x7F
Latin1Decode_ascii_only(b) ==
    IF \E i \in 1..Len(b) : b[i] > 127 THEN DecodeFail ELSE DecodeOk(b)

\* bytes.decode("iso-8859-1")
Latin1Decode(b) == DecodeOk(b)

\* bytes.decode(encoding)
StrictDecode(encoding, b, host) ==
    IF encoding = "utf-8" THEN Utf8Decode(b)
    ELSE IF encoding = "utf-16" THEN Utf16Decode(b, host)
    ELSE IF encoding = "windows-1251" THEN Cp1251Decode(b)
    ELSE Latin1Decode(b)

\* a list that tries UTF-16 before UTF-8
encodings_utf16_first == <<"utf-16", "utf-8", "windows-1251", "iso-8859-1">>

\* the list decode_to_utf8 walks (line 2)
encodings == <<"utf-8", "utf-16", "windows-1251", "iso-8859-1">>

\* the loop of decode_to_utf8 from the i-th encoding on, then the lossy
\* decoding of line 8
RECURSIVE DecodeFrom(_, _, _)
DecodeFrom(i, b, host) ==
    IF i > Len(encodings)
    THEN [encoding |-> "utf-8 replace", text |-> Utf8DecodeReplace(b)]
    ELSE LET r == StrictDecode(encodings[i], b, host)
         IN  IF r.ok THEN [encoding |-> encodings[i], text |-> r.text]
             ELSE DecodeFrom(i + 1, b, host)

\* decode_to_utf8(file_content)
decode_to_utf8(b, host) == DecodeFrom(1, b, host)

\* str.encode("utf-8") on one code point
Utf8EncodeChar(c) ==
    IF c < 128 THEN <<c>>
    ELSE IF c < 2048 THEN <<192 + (c \div 64), 128 + (c % 64)>>
    ELSE IF c < 65536
    THEN <<224 + (c \div 4096), 128 + ((c \div 64) % 64), 128 + (c % 64)>>
    ELSE <<240 + (c \div 262144), 128 + ((c \div 4096) % 64),
           128 + ((c \div 64) % 64), 128 + (c % 64)>>

\* str.encode("utf-8")
RECURSIVE Utf8Encode(_)
Utf8Encode(t) ==
    IF t = << >> THEN << >> ELSE Utf8EncodeChar(t[1]) \o Utf8Encode(Tail(t))

\* the code points the encoded texts are drawn from: NUL, "A", U+0418 and
\* U+043F (their UTF-8 forms use the bytes of DecodeBytes)
TextCodePoints == {0, 65, 1048, 1087}

\* every text of at most MaxTextLen of these code points
SampleTexts == UNION {[1..n -> TextCodePoints] : n \in 0..MaxTextLen}

DecodeInit ==
    /\ dbytes \in ByteStrings
    /\ dhost \in {"little", "big"}
    /\ dpc = "new"
    /\ dtext = << >>
    /\ dencoding = "none"

DecodeIdle ==
    /\ dbytes = << >>
    /\ dhost = "little"
    /\ dpc = "idle"
    /\ dtext = << >>
    /\ dencoding = "none"

\* decode_to_utf8(dbytes)
DecodeCall ==
    /\ dpc = "new"
    /\ LET r == decode_to_utf8(dbytes, dhost)
       IN  /\ dtext' = r.text
           /\ dencoding' = r.encoding
    /\ dpc' = "returned"
    /\ UNCHANGED <<dbytes, dhost>>
    /\ UNCHANGED notDecVars

(***************************************************************************)
(* The extractors                                                          *)
(*                                                                         *)
(* An extracted text is the sequence of its code points.  What a parsing   *)
(* library makes of a document (json.loads, et.fromstring, BeautifulSoup,  *)
(* re.sub, fitz) is an input of the model: the library either raises or    *)
(* hands back a value.                                                     *)
(***************************************************************************)
XFormats == {"txt", "md", "json", "html", "xml", "fb2"}

\* the documents: empty, "A", a Cyrillic letter in UTF-8, and two that
\* are not valid UTF-8
XContents == {<< >>, <<65>>, <<208, 191>>, <<255>>, <<65, 255>>}

\* the text documents: those, and words with two spaces, a tab and a
\* space, a newline, and one space between them
TXTContents ==
    XContents \cup {<<65, 32, 32, 66>>, <<65, 9, 32, 66>>, <<65, 10, 66>>, <<65, 32, 66>>}

\* the markdown documents: those, an image "![A](u)", a link "[A](u)" after
\* a word, an image after a word, and emphasis "*A*"
MDContents ==
    XContents \cup {<<33, 91, 65, 93, 40, 117, 41>>,
                    <<66, 32, 91, 65, 93, 40, 117, 41>>,
                    <<66, 32, 32, 33, 91, 65, 93, 40, 117, 41>>,
                    <<42, 65, 42>>}

\* the exceptions a parsing library raises
LibraryErrors == {"ParseError", "JSONDecodeError", "RuntimeError"}

\* the classes derived from Exception
ExceptionClasses ==
    LibraryErrors \cup {"UnicodeDecodeError", "ExtractionError", "TextLengthError"}

\* str(e) of a library's exception
LibraryMessage(c) == IF c = "ParseError" THEN "syntax error: line 1, column 0"
                     ELSE "library failure"

\* the texts a library hands back: empty, "A", " A " and an emoji before "A"
LibTexts == {<< >>, <<65>>, <<32, 65, 32>>, <<127757, 65>>}

NoOutcome == [kind |-> "none", text |-> << >>, error |-> NoLookupError]

Raise(c, m) == [kind |-> "raise", text |-> << >>, error |-> [class |-> c, msg |-> m]]
Return(t) == [kind |-> "return", text |-> t, error |-> NoLookupError]

\* the code points str.strip() removes
WhitespaceCodePoints == {9, 10, 11, 12, 13, 28, 29, 30, 31, 32, 133, 160}

RECURSIVE RStripCodePoints(_)
RStripCodePoints(s) ==
    IF s = << >> THEN << >>
    ELSE IF s[Len(s)] \in WhitespaceCodePoints
    THEN RStripCodePoints(SubSeq(s, 1, Len(s) - 1))
    ELSE s

\* str.strip() on code points
StripCodePoints(s) == RStripCodePoints(DropWhileIn(s, WhitespaceCodePoints))

\* the emoji of the model: U+1F30D
EmojiCodePoints == {127757}

\* emoji.replace_emoji(text, replace='')
RemoveEmoji(t) == SelectSeq(t, LAMBDA c : c \notin EmojiCodePoints)

\* str.replace(old, new): occurrences found left to right, not overlapping
RECURSIVE Replace(_, _, _)
Replace(t, old, new) ==
    IF Len(t) < Len(old) THEN t
    ELSE IF SubSeq(t, 1, Len(old)) = old
    THEN new \o Replace(SubSeq(t, Len(old) + 1, Len(t)), old, new)
    ELSE <<t[1]>> \o Replace(Tail(t), old, new)

\* an except clause that lets a library's runtime failure pass
Caught_decoding_only(c) == c \in {"UnicodeDecodeError", "JSONDecodeError", "ParseError"}

\* except Exception: every class derived from Exception is caught
Caught(c) == c \in ExceptionClasses

\* an except ParseError clause that never matches
IsParseError_never(c) == FALSE

\* except ParseError
IsParseError(c) == c = "ParseError"

\* try: body / except Exception as e: raise ExtractionError(message) from e
WrapException(o, message) ==
    IF o.kind = "raise" /\ Caught(o.error.class)
    THEN Raise("ExtractionError", <<message>>)
    ELSE o

\* TXTExtractor.extract_plain_text, the try body
TXTBody(b, host) ==
    Return(Replace(Replace(Replace(Replace(decode_to_utf8(b, host).text,
        <<10, 10>>, <<10>>), <<9>>, <<32>>), <<13>>, <<32>>), <<32, 32>>, << >>))

\* TXTExtractor.extract_plain_text
TXTExtractor(b, host) == WrapException(TXTBody(b, host), "Failed to extract TXT text")

\* the characters one of the patterns of lines 13 to 17 and 20 to 24 needs
\* to match: a backquote, #, *, _, -, +, > or a digit
MDOtherMarkup == {96, 35, 42, 95, 45, 43, 62} \cup (48..57)

MDMarkupFree(t) == \A i \in 1..Len(t) : t[i] \notin MDOtherMarkup

\* the first index from i on where t has the character c, 0 when it has none
RECURSIVE FirstAt(_, _, _)
FirstAt(t, c, i) ==
    IF i > Len(t) THEN 0
    ELSE IF t[i] = c THEN i
    ELSE FirstAt(t, c, i + 1)

\* the match of \[([^\]]*)\]\([^\)]*\) that starts at i: the indexes of its
\* "]" and of its ")", or <<0, 0>> when the pattern does not match there
LinkMatch(t, i) ==
    IF i > Len(t) \/ t[i] # 91 THEN <<0, 0>>
    ELSE LET j == FirstAt(t, 93, i + 1)
         IN  IF j = 0 \/ j + 1 > Len(t) \/ t[j + 1] # 40 THEN <<0, 0>>
             ELSE LET k == FirstAt(t, 41, j + 2)
                  IN  IF k = 0 THEN <<0, 0>> ELSE <<j, k>>

\* re.sub(r"\[([^\]]*)\]\([^\)]*\)", r"\1", text), from index i on
RECURSIVE ReSubLink(_, _)
ReSubLink(t, i) ==
    IF i > Len(t) THEN << >>
    ELSE LET m == LinkMatch(t, i)
         IN  IF m[1] # 0
             THEN SubSeq(t, i + 1, m[1] - 1) \o ReSubLink(t, m[2] + 1)
             ELSE <<t[i]>> \o ReSubLink(t, i + 1)

\* re.sub(r"!\[([^\]]*)\]\([^\)]*\)", r"\1", text), from index i on
RECURSIVE ReSubImage(_, _)
ReSubImage(t, i) ==
    IF i > Len(t) THEN << >>
    ELSE LET m == IF t[i] = 33 THEN LinkMatch(t, i + 1) ELSE <<0, 0>>
         IN  IF m[1] # 0
             THEN SubSeq(t, i + 2, m[1] - 1) \o ReSubImage(t, m[2] + 1)
             ELSE <<t[i]>> \o ReSubImage(t, i + 1)

\* re.sub(r"\s+", " ", text)
RECURSIVE ReSubSpaces(_)
ReSubSpaces(t) ==
    IF t = << >> THEN << >>
    ELSE LET rest == ReSubSpaces(Tail(t))
         IN  IF Head(t) \notin WhitespaceCodePoints THEN <<Head(t)>> \o rest
             ELSE IF Len(t) > 1 /\ t[2] \in WhitespaceCodePoints THEN rest
             ELSE <<32>> \o rest

\* the last newline of the whitespace that follows index i, 0 when that
\* whitespace has no newline
RECURSIVE LastNewline(_, _, _)
LastNewline(t, i, seen) ==
    IF i > Len(t) \/ t[i] \notin WhitespaceCodePoints THEN seen
    ELSE LastNewline(t, i + 1, IF t[i] = 10 THEN i ELSE seen)

\* re.sub(r"\n\s*\n", "\n", text), from index i on
RECURSIVE ReSubBlankLines(_, _)
ReSubBlankLines(t, i) ==
    IF i > Len(t) THEN << >>
    ELSE LET k == IF t[i] = 10 THEN LastNewline(t, i + 1, 0) ELSE 0
         IN  IF k # 0
             THEN <<10>> \o ReSubBlankLines(t, k + 1)
             ELSE <<t[i]>> \o ReSubBlankLines(t, i + 1)

\* lines 18 and 19 in the order of the source: the link pattern runs on
\* the text before the image pattern does
MDLinksAndImages(t) == ReSubImage(ReSubLink(t, 1), 1)

\* MDExtractor.extract_plain_text, the try body.  On a text without the
\* characters of MDOtherMarkup the patterns of lines 13 to 17 and 20 to 24
\* match nowhere and the body is lines 18, 19, 25, 26 and 27; on any other
\* text lib and libtext are the outcome of the re.sub chain.
MDBody(b, host, lib, libtext) ==
    LET text == decode_to_utf8(b, host).text
    IN  IF lib # "ok" THEN Raise(lib, <<LibraryMessage(lib)>>)
        ELSE IF MDMarkupFree(text)
        THEN Return(StripCodePoints(
                 ReSubBlankLines(ReSubSpaces(MDLinksAndImages(text)), 1)))
        ELSE Return(StripCodePoints(libtext))

\* MDExtractor.extract_plain_text
MDExtractor(b, host, lib, libtext) ==
    WrapException(MDBody(b, host, lib, libtext), "Failed to extract MD text")

\* the keys of a parsed JSON object, in document order: "k1", "k2", ...
JsonKey(i) == <<107, 48 + i>>

\* the items of a parsed JSON object with the values s
JsonItems(s) == [i \in 1..Len(s) |-> <<JsonKey(i), s[i]>>]

\* the values that are no containers: the strings "a", " b " and an emoji
\* before "c", a number, a boolean and null
JsonAtoms ==
    {<<"str", <<97>>>>, <<"str", <<32, 98, 32>>>>, <<"str", <<127757, 99>>>>,
     <<"num", 1>>, <<"bool", 1>>, <<"null", 0>>}

\* the sequences of parsed documents of m nodes in all, levels[k] being
\* the documents of exactly k nodes
RECURSIVE JsonSeqsOfSize(_, _)
JsonSeqsOfSize(levels, m) ==
    IF m = 0 THEN {<< >>}
    ELSE UNION {{<<v>> \o s : v \in levels[k], s \in JsonSeqsOfSize(levels, m - k)} :
                k \in 1..m}

\* the parsed JSON documents of exactly 1, 2, ..., n nodes
RECURSIVE JsonOfSize(_)
JsonOfSize(n) ==
    IF n = 0 THEN << >>
    ELSE LET levels == JsonOfSize(n - 1)
             members == JsonSeqsOfSize(levels, n - 1)
         IN  Append(levels,
                    (IF n = 1 THEN JsonAtoms ELSE {})
                    \cup {<<"list", s>> : s \in members}
                    \cup {<<"dict", JsonItems(s)>> : s \in members})

\* what json.loads hands back: the documents of at most n nodes
JsonValues(n) ==
    LET levels == JsonOfSize(n)
    IN  UNION {levels[k] : k \in 1..n}

\* a view that yields every key, as a string value, before its value
DictValues_with_keys(items) ==
    [i \in 1..(2 * Len(items)) |->
        IF i % 2 = 1 THEN <<"str", items[(i + 1) \div 2][1]>>
        ELSE items[i \div 2][2]]

\* dict.values()
DictValues(items) == [i \in 1..Len(items) |-> items[i][2]]

\* _recursive_extract(obj); ExtendAll is the loop of result.extend(...)
RECURSIVE recursive_extract(_), ExtendAll(_)
recursive_extract(obj) ==
    IF obj[1] = "str" THEN <<obj[2]>>
    ELSE IF obj[1] = "dict" THEN ExtendAll(DictValues(obj[2]))
    ELSE IF obj[1] = "list" THEN ExtendAll(obj[2])
    ELSE << >>

ExtendAll(objs) ==
    IF objs = << >> THEN << >>
    ELSE recursive_extract(objs[1]) \o ExtendAll(Tail(objs))

\* " ".join(strings)
RECURSIVE JoinSpace(_)
JoinSpace(strings) ==
    IF strings = << >> THEN << >>
    ELSE IF Len(strings) = 1 THEN strings[1]
    ELSE strings[1] \o <<32>> \o JoinSpace(Tail(strings))

\* JSONExtractor.extract_plain_text, the try body: lib and json_data are
\* the outcome of json.loads on the decoded text
JSONBody(b, host, lib, json_data) ==
    LET decoded == decode_to_utf8(b, host).text
    IN  IF lib # "ok" THEN Raise(lib, <<LibraryMessage(lib)>>)
        ELSE Return(RemoveEmoji(StripCodePoints(JoinSpace(recursive_extract(json_data)))))

\* JSONExtractor.extract_plain_text
JSONExtractor(b, host, lib, json_data) ==
    WrapException(JSONBody(b, host, lib, json_data), "Failed to extract text from JSON")

\* HTMLExtractor.extract_plain_text, the try body: lib and libtext are the
\* outcome of BeautifulSoup, get_text and the re.sub calls
HTMLBody(b, lib, libtext) ==
    IF ~Utf8Decode(b).ok
    THEN Raise("UnicodeDecodeError", <<"'utf-8' codec can't decode">>)
    ELSE IF lib # "ok" THEN Raise(lib, <<LibraryMessage(lib)>>)
    ELSE Return(RemoveEmoji(StripCodePoints(libtext)))

\* HTMLExtractor.extract_plain_text
HTMLExtractor(b, lib, libtext) ==
    WrapException(HTMLBody(b, lib, libtext), "Failed to extract HTML text")

\* FB2Extractor.extract_plain_text, the try body: lib and libtext are the
\* outcome of fitz.open and of joining the texts of the pages
FB2Body(b, lib, libtext) ==
    IF lib # "ok" THEN Raise(lib, <<LibraryMessage(lib)>>)
    ELSE Return(RemoveEmoji(libtext))

\* FB2Extractor.extract_plain_text
FB2Extractor(b, lib, libtext) ==
    WrapException(FB2Body(b, lib, libtext), "Failed to extract FB2 text")

\* An element tree is the sequence of the parents of its nodes: node 1 is
\* the root (parent 0), the children of a node are in the order of their
\* numbers.
\* a chain of d nested elements below the root
ChainTree(d) == [i \in 1..(d + 1) |-> i - 1]

\* the chain with one more leaf as the last child of the root
ChainWithLastLeaf(d) == Append(ChainTree(d), 1)

\* the chain with one more leaf as the first child of the root
ChainWithFirstLeaf(d) == [i \in 1..(d + 2) |-> IF i = 1 THEN 0
                                                ELSE IF i <= 3 THEN 1
                                                ELSE i - 1]

\* what et.fromstring hands back
XmlTrees ==
    {ChainTree(d) : d \in 0..MaxTreeDepth}
    \cup {ChainWithLastLeaf(d) : d \in 1..MaxTreeDepth}
    \cup {ChainWithFirstLeaf(d) : d \in 1..MaxTreeDepth}

Children(t, e) == {c \in 1..Len(t) : t[c] = e}

MaxOf(S) == CHOOSE m \in S : \A n \in S : n <= m

\* _get_max_depth(element, current_depth)
RECURSIVE get_max_depth(_, _, _)
get_max_depth(t, element, current_depth) ==
    IF Children(t, element) = {} THEN current_depth
    ELSE MaxOf({current_depth} \cup
               {get_max_depth(t, child, current_depth + 1) : child \in Children(t, element)})

\* the size ceiling of the XML extractor, in characters (line 18)
SizeCeiling == 10 * 1024 * 1024

\* the nesting ceiling of the XML extractor (line 23)
max_depth == 50

\* a comparison that also rejects the ceiling itself
DepthExceeded_at_ceiling(d) == d >= max_depth

\* _get_max_depth(root) > max_depth
DepthExceeded(d) == d > max_depth

\* the numbers of spaces that follow the modelled bytes of an XML document
XPads == {0, SizeCeiling - 2, SizeCeiling - 1, SizeCeiling}

\* XMLExtractor.extract_plain_text, the try body: the document is b and
\* pad spaces; lib and root are the outcome of et.fromstring, libtext the
\* one of xml_node_to_plain_text
XMLBody(b, pad, host, lib, root, libtext) ==
    LET xml_text_len == Len(decode_to_utf8(b, host).text) + pad
    IN  IF xml_text_len > SizeCeiling
        THEN Raise("ExtractionError", <<"XML file too large for processing">>)
        ELSE IF lib # "ok" THEN Raise(lib, <<LibraryMessage(lib)>>)
        ELSE IF DepthExceeded(get_max_depth(root, 1, 0))
        THEN Raise("ExtractionError", <<"XML structure too deeply nested">>)
        ELSE Return(RemoveEmoji(libtext))

\* XMLExtractor.extract_plain_text: except ParseError, then except Exception
XMLExtractor(b, pad, host, lib, root, libtext) ==
    LET o == XMLBody(b, pad, host, lib, root, libtext)
    IN  IF o.kind = "raise" /\ IsParseError(o.error.class)
        THEN Raise("ExtractionError", <<"Invalid XML format: ">> \o o.error.msg)
        ELSE WrapException(o, "Failed to extract XML text")

NoTree == ChainTree(0)
NoJson == <<"null", 0>>

\* the inputs of one extract_plain_text call; an input a format does not
\* read has one value (the byte order of the host is read only when the
\* UTF-16 decoding is tried)
ExtractInit ==
    /\ xpc = "new"
    /\ xout = NoOutcome
    /\ \/ /\ xfmt = "txt" /\ xlib = "ok"
          /\ xlibtext = << >> /\ xjson = NoJson /\ xtree = NoTree /\ xpad = 0
       \/ /\ xfmt \in {"md", "html", "fb2"} /\ xlib = "ok"
          /\ xlibtext \in LibTexts
          /\ xjson = NoJson /\ xtree = NoTree /\ xpad = 0
       \/ /\ xfmt = "json" /\ xlib = "ok"
          /\ xjson \in JsonValues(MaxJsonNodes)
          /\ xlibtext = << >> /\ xtree = NoTree /\ xpad = 0
       \/ /\ xfmt = "xml" /\ xlib = "ok"
          /\ xtree \in XmlTrees
          /\ xlibtext \in LibTexts
          /\ xpad \in XPads
          /\ xjson = NoJson
       \/ /\ xfmt \in XFormats \ {"txt"} /\ xlib \in LibraryErrors
          /\ xpad \in (IF xfmt = "xml" THEN XPads ELSE {0})
          /\ xlibtext = << >> /\ xjson = NoJson /\ xtree = NoTree
    /\ xbytes \in (IF xfmt = "txt" THEN TXTContents
                   ELSE IF xfmt = "md" THEN MDContents ELSE XContents)
    /\ xpad # 0 => Utf8Decode(xbytes).ok
    /\ xhost \in {"little", "big"}
    /\ (Utf8Decode(xbytes).ok \/ xfmt \in {"html", "fb2"}) => xhost = "little"
    /\ (xfmt = "md" /\ xlib = "ok" /\ MDMarkupFree(decode_to_utf8(xbytes, xhost).text))
          => xlibtext = << >>

ExtractIdle ==
    /\ xfmt = "txt"
    /\ xbytes = << >>
    /\ xhost = "little"
    /\ xpad = 0
    /\ xlib = "ok"
    /\ xlibtext = << >>
    /\ xjson = NoJson
    /\ xtree = NoTree
    /\ xpc = "idle"
    /\ xout = NoOutcome

ExtractDone(o) ==
    /\ xout' = o
    /\ xpc' = "done"
    /\ UNCHANGED <<xfmt, xbytes, xpad, xhost, xlib, xlibtext, xjson, xtree>>
    /\ UNCHANGED notExVars

TXTExtract ==
    /\ xpc = "new" /\ xfmt = "txt"
    /\ ExtractDone(TXTExtractor(xbytes, xhost))

MDExtract ==
    /\ xpc = "new" /\ xfmt = "md"
    /\ ExtractDone(MDExtractor(xbytes, xhost, xlib, xlibtext))

JSONExtract ==
    /\ xpc = "new" /\ xfmt = "json"
    /\ ExtractDone(JSONExtractor(xbytes, xhost, xlib, xjson))

HTMLExtract ==
    /\ xpc = "new" /\ xfmt = "html"
    /\ ExtractDone(HTMLExtractor(xbytes, xlib, xlibtext))

XMLExtract ==
    /\ xpc = "new" /\ xfmt = "xml"
    /\ ExtractDone(XMLExtractor(xbytes, xpad, xhost, xlib, xtree, xlibtext))

FB2Extract ==
    /\ xpc = "new" /\ xfmt = "fb2"
    /\ ExtractDone(FB2Extractor(xbytes, xlib, xlibtext))

(***************************************************************************)
(* extract_text, the entry point                                           *)
(*                                                                         *)
(* What create_container, container.get, use_case.execute and              *)
(* container.close do is an input of the model: each returns or raises.    *)
(***************************************************************************)
\* the outcomes of use_case.execute
ExecuteOutcomes ==
    {Return(<<97>>), Return(<<97, 32, 49>>),
     Raise("UnsupportedFormatError", <<"Unsupported format: ", "unknown">>),
     Raise("ExtractionError", <<"File is corrupted">>),
     Raise("TextLengthError", <<"No valid text content after cleaning">>)}

\* the documents handed to extract_text
FacadeContents == {<< >>, <<65>>, <<255, 65>>}

CreationError == Raise("Exception", <<"Container creation failed">>)
RetrievalError == Raise("Exception", <<"Use case retrieval failed">>)
CloseError == Raise("Exception", <<"Close error">>)

\* a try statement whose container is closed after a result only
AfterTry_result_only(o) == IF o.kind = "return" THEN "finally" ELSE "done"

\* try ... finally: the finally block runs whatever the try block did
AfterTry(o) == "finally"

\* the end of the finally block: an exception raised in it replaces the
\* pending return value or exception
AfterFinally(pending, closing) == IF closing.kind = "raise" THEN closing ELSE pending

FacadeInit ==
    /\ acontent \in FacadeContents
    /\ afmt \in {<<"t">>, <<"T">>}
    /\ acreate \in {"ok", "raises"}
    /\ aget \in {"ok", "raises"}
    /\ aexec \in ExecuteOutcomes
    /\ aclose \in {"ok", "raises"}
    /\ apc = "start"
    /\ acreated = 0
    /\ aclosed = 0
    /\ apending = NoOutcome
    /\ aout = NoOutcome

FacadeIdle ==
    /\ acontent = << >>
    /\ afmt = << >>
    /\ acreate = "ok"
    /\ aget = "ok"
    /\ aexec = Return(<<97>>)
    /\ aclose = "ok"
    /\ apc = "idle"
    /\ acreated = 0
    /\ aclosed = 0
    /\ apending = NoOutcome
    /\ aout = NoOutcome

\* the try block ended with the outcome o
LeaveTry(o) ==
    /\ apending' = o
    /\ apc' = AfterTry(o)
    /\ aout' = IF AfterTry(o) = "done" THEN o ELSE aout

\* line 6: container = create_container()
CreateContainer ==
    /\ apc = "start"
    /\ acreated' = acreated + 1
    /\ IF acreate = "raises"
       THEN /\ apc' = "done"
            /\ aout' = CreationError
       ELSE /\ apc' = "try"
            /\ aout' = aout
    /\ UNCHANGED <<acontent, afmt, acreate, aget, aexec, aclose, aclosed, apending>>
    /\ UNCHANGED notFaVars

\* line 8: use_case = container.get(ExtractTextUseCase)
GetUseCase ==
    /\ apc = "try"
    /\ IF aget = "raises"
       THEN LeaveTry(RetrievalError)
       ELSE /\ apc' = "execute"
            /\ UNCHANGED <<apending, aout>>
    /\ UNCHANGED <<acontent, afmt, acreate, aget, aexec, aclose, acreated, aclosed>>
    /\ UNCHANGED notFaVars

\* line 9: return use_case.execute(content, content_format)
Execute ==
    /\ apc = "execute"
    /\ LeaveTry(aexec)
    /\ UNCHANGED <<acontent, afmt, acreate, aget, aexec, aclose, acreated, aclosed>>
    /\ UNCHANGED notFaVars

\* lines 10-11: finally: container.close()
CloseContainer ==
    /\ apc = "finally"
    /\ aclosed' = aclosed + 1
    /\ aout' = AfterFinally(apending, IF aclose = "raises" THEN CloseError ELSE Return(<< >>))
    /\ apc' = "done"
    /\ UNCHANGED <<acontent, afmt, acreate, aget, aexec, aclose, acreated, apending>>
    /\ UNCHANGED notFaVars

(***************************************************************************)
(* ExtractTextUseCase                                                      *)
(***************************************************************************)
\* the byte strings a caller hands to execute
UCContents == {<< >>, <<65>>, <<255, 65>>}

\* the strings an extractor hands back to the use case
UCTexts ==
    {<< >>, <<" ">>, <<"a">>, <<"U+044F">>, <<"a", " ", "U+044F">>,
     <<"a", "\n", "1">>, <<"U+044F", " ", "U+044F">>}

\* the messages of the ExtractionError an extractor raises
UCExtractionMessages ==
    {<<"Failed to extract TXT text">>, <<"Specific extraction failure">>}

ExtractionError(m) == [class |-> "ExtractionError", msg |-> m]

\* the error of a PlainText outcome, its message as a string of one piece
TextError(e) == [class |-> e.class, msg |-> <<e.msg>>]

\* an execute that catches a stage's error and raises its own
Propagate_wrapped(e) == ExtractionError(<<"Extraction failed">>)

\* execute has no try/except: a stage's error reaches the caller as raised
Propagate(e) == e

\* an execute that lowercases the format before the lookup
LookupArgument_lowered(f) == Lower(f)

\* execute hands the caller's format string to get_extractor as it is
LookupArgument(f) == f

UseCaseInit ==
    /\ upc = "start"
    /\ ufactory \in SmallMappings
    /\ ufmt \in FmtNames
    /\ ucontent \in UCContents
    /\ ulog = << >>
    /\ uraw = << >>
    /\ uraised = NoLookupError
    /\ uout = NoOutcome

UseCaseIdle ==
    /\ upc = "idle"
    /\ ufactory = EmptyMap
    /\ ufmt = << >>
    /\ ucontent = << >>
    /\ ulog = << >>
    /\ uraw = << >>
    /\ uraised = NoLookupError
    /\ uout = NoOutcome

\* execute, stage 1: extractor = factory.get_extractor(format)
UCLookup ==
    /\ upc = "start"
    /\ ulog' = Append(ulog, [op |-> "get_extractor", with |-> LookupArgument(ufmt)])
    /\ LET o == GetExtractorOutcome(ufactory, LookupArgument(ufmt))
       IN  IF o.kind = "raise"
           THEN /\ upc' = "failed"
                /\ uraised' = o.error
                /\ uout' = [kind |-> "raise", text |-> << >>, error |-> Propagate(o.error)]
           ELSE /\ upc' = "extract"
                /\ UNCHANGED <<uraised, uout>>
    /\ UNCHANGED <<ufactory, ufmt, ucontent, uraw>>
    /\ UNCHANGED notUcVars

\* execute, stage 2: text = extractor.extract_plain_text(content), where
\* the extractor returns the string t
UCExtractReturns(t) ==
    /\ upc = "extract"
    /\ ulog' = Append(ulog, [op |-> "extract_plain_text", with |-> ucontent])
    /\ uraw' = t
    /\ upc' = "normalize"
    /\ UNCHANGED <<ufactory, ufmt, ucontent, uraised, uout>>
    /\ UNCHANGED notUcVars

\* execute, stage 2, where the extractor raises ExtractionError(m)
UCExtractRaises(m) ==
    /\ upc = "extract"
    /\ ulog' = Append(ulog, [op |-> "extract_plain_text", with |-> ucontent])
    /\ upc' = "failed"
    /\ uraised' = ExtractionError(m)
    /\ uout' = [kind |-> "raise", text |-> << >>, error |-> Propagate(ExtractionError(m))]
    /\ UNCHANGED <<ufactory, ufmt, ucontent, uraw>>
    /\ UNCHANGED notUcVars

\* execute, stage 3: return PlainText(value=text).to_str()
UCNormalize ==
    /\ upc = "normalize"
    /\ ulog' = Append(ulog, [op |-> "PlainText", with |-> uraw])
    /\ LET o == PlainTextOutcome(uraw)
       IN  IF o.kind = "raise"
           THEN /\ upc' = "failed"
                /\ uraised' = TextError(o.error)
                /\ uout' = [kind |-> "raise", text |-> << >>,
                            error |-> Propagate(TextError(o.error))]
           ELSE /\ upc' = "returned"
                /\ uout' = [kind |-> "return", text |-> o.text, error |-> NoLookupError]
                /\ UNCHANGED uraised
    /\ UNCHANGED <<ufactory, ufmt, ucontent, uraw>>
    /\ UNCHANGED notUcVars

(***************************************************************************)
(* Several extract_text calls side by side                                 *)
(*                                                                         *)
(* Every call has its own container, factory, use case and local           *)
(* variables; the calls share the module-level EXTRACTORS_MAPPING.         *)
(***************************************************************************)
Calls == 1..MaxCalls

\* the module-level mapping the provider hands to every factory
EXTRACTORS_MAPPING == [k \in {<<"t">>} |-> "TXTExtractor"]

\* the documents and the format names of the calls
CallContents == {<<65>>, <<255>>, <<65, 9, 66>>}
CallFormats == {<<"t">>, <<"T">>, <<"1">>}

\* the character of a code point, as the characters of PlainText are written
CodePointChar(c) ==
    IF c = 65 THEN "A" ELSE IF c = 66 THEN "B" ELSE IF c = 32 THEN " "
    ELSE IF c = 9 THEN "\t" ELSE IF c = 10 THEN "\n" ELSE IF c = 160 THEN "U+00A0"
    ELSE "U+044F"

CodePointChars(t) == [i \in 1..Len(t) |-> CodePointChar(t[i])]

\* a use case that keeps the extracted text in one place for all calls
CallSlot_shared(i) == 1

\* the extracted text of call i is a local variable of that call
CallSlot(i) == i

CallsInit ==
    /\ cargs \in [Calls -> [content : CallContents, fmt : CallFormats]]
    /\ chost \in {"little", "big"}
    /\ cmapping = EXTRACTORS_MAPPING
    /\ cpc = [i \in Calls |-> "start"]
    /\ cregistry = [i \in Calls |-> EmptyMap]
    /\ cextractor = [i \in Calls |-> "none"]
    /\ craw = [i \in Calls |-> << >>]
    /\ cpending = [i \in Calls |-> NoOutcome]
    /\ cout = [i \in Calls |-> NoOutcome]

CallsIdle ==
    /\ cargs = << >>
    /\ chost = "little"
    /\ cmapping = EmptyMap
    /\ cpc = << >>
    /\ cregistry = << >>
    /\ cextractor = << >>
    /\ craw = << >>
    /\ cpending = << >>
    /\ cout = << >>

\* call i: create_container() and container.get(ExtractTextUseCase), which
\* builds the factory of this call from the shared mapping
CallCreate(i) ==
    /\ cpc[i] = "start"
    /\ cregistry' = [cregistry EXCEPT ![i] = cmapping]
    /\ cpc' = [cpc EXCEPT ![i] = "lookup"]
    /\ UNCHANGED <<cargs, chost, cmapping, cextractor, craw, cpending, cout>>
    /\ UNCHANGED notCallVars

\* call i: extractor = factory.get_extractor(format)
CallLookup(i) ==
    /\ cpc[i] = "lookup"
    /\ LET o == GetExtractorOutcome(cregistry[i], cargs[i].fmt)
       IN  IF o.kind = "raise"
           THEN /\ cpending' = [cpending EXCEPT ![i] =
                                   [kind |-> "raise", text |-> << >>, error |-> o.error]]
                /\ cpc' = [cpc EXCEPT ![i] = "finally"]
                /\ UNCHANGED cextractor
           ELSE /\ cextractor' = [cextractor EXCEPT ![i] = o.extractor]
                /\ cpc' = [cpc EXCEPT ![i] = "extract"]
                /\ UNCHANGED cpending
    /\ UNCHANGED <<cargs, chost, cmapping, cregistry, craw, cout>>
    /\ UNCHANGED notCallVars

\* call i: text = extractor.extract_plain_text(content)
CallExtract(i) ==
    /\ cpc[i] = "extract"
    /\ LET o == TXTExtractor(cargs[i].content, chost)
       IN  IF o.kind = "raise"
           THEN /\ cpending' = [cpending EXCEPT ![i] = o]
                /\ cpc' = [cpc EXCEPT ![i] = "finally"]
                /\ UNCHANGED craw
           ELSE /\ craw' = [craw EXCEPT ![CallSlot(i)] = CodePointChars(o.text)]
                /\ cpc' = [cpc EXCEPT ![i] = "normalize"]
                /\ UNCHANGED cpending
    /\ UNCHANGED <<cargs, chost, cmapping, cregistry, cextractor, cout>>
    /\ UNCHANGED notCallVars

\* call i: return PlainText(value=text).to_str()
CallNormalize(i) ==
    /\ cpc[i] = "normalize"
    /\ LET o == PlainTextOutcome(craw[CallSlot(i)])
       IN  cpending' = [cpending EXCEPT ![i] =
               IF o.kind = "raise"
               THEN [kind |-> "raise", text |-> << >>, error |-> TextError(o.error)]
               ELSE [kind |-> "return", text |-> o.text, error |-> NoLookupError]]
    /\ cpc' = [cpc EXCEPT ![i] = "finally"]
    /\ UNCHANGED <<cargs, chost, cmapping, cregistry, cextractor, craw, cout>>
    /\ UNCHANGED notCallVars

\* call i: finally: container.close(), then the caller gets the outcome
CallClose(i) ==
    /\ cpc[i] = "finally"
    /\ cout' = [cout EXCEPT ![i] = cpending[i]]
    /\ cpc' = [cpc EXCEPT ![i] = "done"]
    /\ UNCHANGED <<cargs, chost, cmapping, cregistry, cextractor, craw, cpending>>
    /\ UNCHANGED notCallVars

\* PlainText(value=arg): the dataclass stores the field, then
\* __post_init__ validates it
Construct ==
    /\ pc = "new"
    /\ value' = arg
    /\ IF PostInitRejects(arg)
       THEN /\ pc' = "construction_failed"
            /\ err' = PostInitError
       ELSE /\ pc' = "constructed"
            /\ err' = err
    /\ UNCHANGED <<arg, result, cleanRuns>>
    /\ UNCHANGED notPtVars

\* plain_text.to_str()
ToStr ==
    /\ pc = "constructed"
    /\ cleanRuns' = cleanRuns + 1
    /\ LET cleaned_value == Clean(value)
       IN  IF Len(cleaned_value) = 0
           THEN /\ pc' = "to_str_failed"
                /\ err' = ToStrError
                /\ result' = result
           ELSE /\ pc' = "returned"
                /\ result' = cleaned_value
                /\ err' = err
    /\ UNCHANGED <<arg, value>>
    /\ UNCHANGED notPtVars

\* ExtractorFactory(srcMapping): the factory keeps its own copy
NewFactory ==
    /\ fpc = "new"
    /\ registry' = srcMapping
    /\ built' = srcMapping
    /\ fpc' = "ready"
    /\ UNCHANGED <<srcMapping, fmt, found, ferr>>
    /\ UNCHANGED notLookupVars

\* factory.get_extractor(f)
GetExtractor(f) ==
    /\ fpc \in {"ready", "returned", "raised"}
    /\ fmt' = f
    /\ IF LookupKey(f) \in DOMAIN FactoryMapping(registry, srcMapping)
       THEN /\ fpc' = "returned"
            /\ found' = FactoryMapping(registry, srcMapping)[LookupKey(f)]
            /\ ferr' = NoLookupError
       ELSE /\ fpc' = "raised"
            /\ found' = "none"
            /\ ferr' = UnsupportedFormatError(f)
    /\ UNCHANGED <<srcMapping, registry, built>>
    /\ UNCHANGED notLookupVars

\* the caller's mapping after m[k] = e (insertion or replacement)
MapSet(m, k, e) == [x \in DOMAIN m \cup {k} |-> IF x = k THEN e ELSE m[x]]

\* the caller's mapping after del m[k]
MapDel(m, k) == [x \in DOMAIN m \ {k} |-> m[x]]

\* the owner of the source mapping runs m[k] = e after the factory was built
SourceInsert(k, e) ==
    /\ fpc \in {"ready", "returned", "raised"}
    /\ Cardinality(DOMAIN srcMapping \cup {k}) <= MaxSrcKeys
    /\ srcMapping' = MapSet(srcMapping, k, e)
    /\ srcMapping' # srcMapping
    /\ UNCHANGED <<registry, fpc, fmt, found, ferr, built>>
    /\ UNCHANGED notLookupVars

\* the owner of the source mapping runs del m[k] after the factory was built
SourceDelete(k) ==
    /\ fpc \in {"ready", "returned", "raised"}
    /\ k \in DOMAIN srcMapping
    /\ srcMapping' = MapDel(srcMapping, k)
    /\ UNCHANGED <<registry, fpc, fmt, found, ferr, built>>
    /\ UNCHANGED notLookupVars

Init == PlainTextInit /\ LookupIdle /\ UseCaseIdle /\ DecodeIdle /\ ExtractIdle /\ OrdersIdle /\ FacadeIdle /\ CallsIdle

Next == Construct \/ ToStr

\* the life of one PlainText
Spec == Init /\ [][Next]_vars

InitLookup == PlainTextIdle /\ LookupInit /\ UseCaseIdle /\ DecodeIdle /\ ExtractIdle /\ OrdersIdle /\ FacadeIdle /\ CallsIdle

NextLookup == NewFactory \/ (\E f \in FmtNames : GetExtractor(f))

\* the life of one ExtractorFactory
SpecLookup == InitLookup /\ [][NextLookup]_vars

IsolationInit ==
    /\ srcMapping \in IsolationMappings
    /\ registry = EmptyMap
    /\ fpc = "new"
    /\ fmt = << >>
    /\ found = "none"
    /\ ferr = NoLookupError
    /\ built = EmptyMap

InitIsolation == PlainTextIdle /\ IsolationInit /\ UseCaseIdle /\ DecodeIdle /\ ExtractIdle /\ OrdersIdle /\ FacadeIdle /\ CallsIdle

NextIsolation ==
    \/ NewFactory
    \/ \E f \in FmtNames : GetExtractor(f)
    \/ \E k \in MutationKeys, e \in Extractors : SourceInsert(k, e)
    \/ \E k \in MutationKeys : SourceDelete(k)

\* a factory whose source mapping is mutated by its owner afterwards
SpecIsolation == InitIsolation /\ [][NextIsolation]_vars

InitUseCase == PlainTextIdle /\ LookupIdle /\ UseCaseInit /\ DecodeIdle /\ ExtractIdle /\ OrdersIdle /\ FacadeIdle /\ CallsIdle

NextUseCase ==
    \/ UCLookup
    \/ \E t \in UCTexts : UCExtractReturns(t)
    \/ \E m \in UCExtractionMessages : UCExtractRaises(m)
    \/ UCNormalize

\* one call of ExtractTextUseCase.execute
SpecUseCase == InitUseCase /\ [][NextUseCase]_vars

InitDecode == PlainTextIdle /\ LookupIdle /\ UseCaseIdle /\ DecodeInit /\ ExtractIdle /\ OrdersIdle /\ FacadeIdle /\ CallsIdle

NextDecode == DecodeCall

\* one call of decode_to_utf8
SpecDecode == InitDecode /\ [][NextDecode]_vars

InitExtract ==
    /\ PlainTextIdle /\ LookupIdle /\ UseCaseIdle /\ DecodeIdle /\ ExtractInit
    /\ OrdersIdle /\ FacadeIdle /\ CallsIdle

InitOrders ==
    /\ PlainTextIdle /\ LookupIdle /\ UseCaseIdle /\ DecodeIdle /\ ExtractIdle
    /\ OrdersInit /\ FacadeIdle /\ CallsIdle

InitFacade ==
    /\ PlainTextIdle /\ LookupIdle /\ UseCaseIdle /\ DecodeIdle /\ ExtractIdle
    /\ OrdersIdle /\ FacadeInit /\ CallsIdle

NextFacade == CreateContainer \/ GetUseCase \/ Execute \/ CloseContainer

\* one call of extract_text
SpecFacade == InitFacade /\ [][NextFacade]_vars

InitCalls ==
    /\ PlainTextIdle /\ LookupIdle /\ UseCaseIdle /\ DecodeIdle /\ ExtractIdle
    /\ OrdersIdle /\ FacadeIdle /\ CallsInit

NextCalls ==
    \E i \in Calls :
        \/ CallCreate(i)
        \/ CallLookup(i)
        \/ CallExtract(i)
        \/ CallNormalize(i)
        \/ CallClose(i)

\* extract_text calls whose steps interleave in any order
SpecCalls == InitCalls /\ [][NextCalls]_vars

NextOrders == RunPlainTextClean \/ RunMainClean

\* the two _clean functions of the source on one input
SpecOrders == InitOrders /\ [][NextOrders]_vars

NextExtract ==
    \/ TXTExtract
    \/ MDExtract
    \/ JSONExtract
    \/ HTMLExtract
    \/ XMLExtract
    \/ FB2Extract

\* one call of an extractor's extract_plain_text
SpecExtract == InitExtract /\ [][NextExtract]_vars

(***************************************************************************)
(* Properties                                                              *)
(***************************************************************************)
\* the visible characters of the allowed alphabet
VisibleChars == ascii_letters \cup digits \cup punctuation

Visible(s) == SelectSeq(s, LAMBDA c : c \in VisibleChars)

HasVisible(s) == \E i \in 1..Len(s) : s[i] \in VisibleChars

HasDisallowed(s) == \E i \in 1..Len(s) : s[i] \notin valid_characters

HasRunOfTwo(s, c) == \E i \in 1..(Len(s) - 1) : s[i] = c /\ s[i + 1] = c

AllWhitespace(s) == \A i \in 1..Len(s) : s[i] \in StripWhitespace

\* C1: a string returned by to_str() contains no run of two or more
\* consecutive spaces, also when the removed characters stood between
\* two spaces.
C1_NoDoubleSpace == pc = "returned" => ~HasRunOfTwo(result, " ")

\* C2: a string returned by to_str() has no leading and no trailing
\* whitespace character.
C2_NoOuterWhitespace ==
    pc = "returned" =>
        /\ Len(result) > 0
        /\ result[1] \notin StripWhitespace
        /\ result[Len(result)] \notin StripWhitespace

\* C3: for an input without any ASCII letter, digit or punctuation
\* character PlainText(s).to_str() raises TextLengthError and never
\* returns a string.
C3_OnlyDisallowedRaises ==
    ~HasVisible(arg) =>
        /\ pc # "returned"
        /\ pc \in {"construction_failed", "to_str_failed"} => err.class = "TextLengthError"

\* C4: to_str() keeps line structure: for an input made of non-empty lines
\* of visible allowed characters separated by newlines, the output is the
\* input with every run of newlines reduced to one newline.
C4_NewlinesKept ==
    (/\ pc = "returned"
     /\ \A i \in 1..Len(arg) : arg[i] \in VisibleChars \cup {"\n"}
     /\ arg[1] # "\n"
     /\ arg[Len(arg)] # "\n")
    => result = ReSubRuns(arg, {"\n"}, "\n")

\* C5: normalisation is idempotent: when s has at least one character of
\* the allowed alphabet, normalising the returned string again succeeds
\* and returns the same string.
C5_Idempotent ==
    (pc = "returned" /\ \E i \in 1..Len(arg) : arg[i] \in valid_characters)
    => /\ PlainTextOutcome(result).kind = "return"
       /\ PlainTextOutcome(result).text = result

C8_ConstructionCheck ==
    pc # "new" =>
        IF AllWhitespace(arg)
        THEN /\ pc = "construction_failed"
             /\ err.class = "TextLengthError"
             /\ cleanRuns = 0
        ELSE /\ pc # "construction_failed"
             /\ value = arg

\* C8 witness: construction from a whitespace-only string of tabs,
\* newlines or spaces failed
C8_Witness ==
    /\ pc = "construction_failed"
    /\ Len(arg) >= 2
    /\ \E i \in 1..Len(arg) : arg[i] \in {"\t", "\n"}

\* C9: the error raised when the text is empty after cleaning differs, in
\* class or message, from the error construction raises for an empty
\* input.
C9_ErrorsDistinct == pc = "to_str_failed" => err # PostInitError

\* C10: get_extractor(f) and get_extractor(lowercase(f)) both return the
\* same extractor or both raise UnsupportedFormatError.
C10_CaseInsensitive ==
    fpc \in {"returned", "raised"} =>
        LET o == GetExtractorOutcome(registry, Lower(fmt))
        IN  \/ /\ fpc = "returned"
               /\ o.kind = "return"
               /\ o.extractor = found
            \/ /\ fpc = "raised"
               /\ ferr.class = "UnsupportedFormatError"
               /\ o.kind = "raise"
               /\ o.error.class = "UnsupportedFormatError"

\* C10 witness: a query with an upper-case letter returned an extractor
C10_Witness == fpc = "returned" /\ Lower(fmt) # fmt

\* hay contains needle as a contiguous run
ContainsSeq(hay, needle) ==
    \E k \in 0..(Len(hay) - Len(needle)) :
        \A i \in 1..Len(needle) : hay[k + i] = needle[i]

\* C11: when the lowercase form of the format name is not a key of the
\* registry, get_extractor raises UnsupportedFormatError, its message holds
\* the format name exactly as given, and no extractor is returned.
C11_FailsClosed ==
    (fpc \in {"returned", "raised"} /\ Lower(fmt) \notin DOMAIN registry) =>
        /\ fpc = "raised"
        /\ found = "none"
        /\ ferr.class = "UnsupportedFormatError"
        /\ ContainsSeq(ferr.msg, fmt)

\* C11 witness: a name with an upper-case letter was refused
C11_Witness ==
    /\ fpc = "raised"
    /\ Len(fmt) >= 2
    /\ Lower(fmt) # fmt

\* C12: once the factory is built, no insertion, replacement or deletion
\* in the source mapping changes the outcome of a get_extractor call: every
\* call answers from the content the mapping had at construction.
C12_RegistryIsolated ==
    fpc \in {"returned", "raised"} =>
        LET o == GetExtractorOutcome(built, fmt)
        IN  /\ (fpc = "returned") = (o.kind = "return")
            /\ found = o.extractor
            /\ ferr = o.error

\* C12 witness: a key inserted into the source mapping after construction
\* is still refused
C12_Witness ==
    /\ fpc = "raised"
    /\ LookupKey(fmt) \in DOMAIN srcMapping
    /\ LookupKey(fmt) \notin DOMAIN built

\* C13: an error raised by the lookup, by the extractor or by PlainText
\* reaches the caller of execute with the same kind and message, and a
\* call in which a stage raised never returns a string.
C13_ErrorsPreserved ==
    /\ upc = "failed" =>
           /\ uout.kind = "raise"
           /\ uout.error = uraised
           /\ uraised.class \in {"UnsupportedFormatError", "ExtractionError", "TextLengthError"}
    /\ uraised # NoLookupError => upc = "failed"
    /\ upc = "returned" => uout.kind = "return" /\ uraised = NoLookupError

\* C13 witness: a TextLengthError raised by to_str reached the caller
C13_Witness ==
    /\ upc = "failed"
    /\ Len(ulog) = 3
    /\ uout.error.class = "TextLengthError"
    /\ ~PostInitRejects(uraw)

XmlTextLen == Len(decode_to_utf8(xbytes, xhost).text) + xpad

\* how many levels node i of the tree t lies below the root
RECURSIVE Level(_, _)
Level(t, i) == IF t[i] = 0 THEN 0 ELSE 1 + Level(t, t[i])

\* how many levels the deepest element of t lies below the root
TreeDepth(t) ==
    LET levels == {Level(t, i) : i \in 1..Len(t)}
    IN  CHOOSE d \in levels : \A e \in levels : e <= d

\* the string values of a parsed JSON document, depth first in document
\* order, from object values and array elements only
RECURSIVE StringValues(_)
StringValues(v) ==
    IF v[1] = "str" THEN <<v[2]>>
    ELSE IF v[1] \in {"list", "dict"}
    THEN LET parts == [i \in 1..Len(v[2]) |->
                          StringValues(IF v[1] = "dict" THEN v[2][i][2] ELSE v[2][i])]
             F[i \in 0..Len(parts)] == IF i = 0 THEN << >> ELSE F[i - 1] \o parts[i]
         IN  F[Len(parts)]
    ELSE << >>

\* C14: an extractor either returns a string or raises ExtractionError or
\* TextLengthError; a failure of the decoding or of a library inside it
\* reaches the caller as ExtractionError, never as another exception.
C14_OnlyExtractionErrors ==
    xpc = "done" =>
        /\ xout.kind \in {"return", "raise"}
        /\ xout.kind = "raise" =>
              xout.error.class \in {"ExtractionError", "TextLengthError"}
        /\ xlib # "ok" => xout.kind = "raise" /\ xout.error.class = "ExtractionError"

\* C14 witness: the FB2 library failed at run time and the caller got an
\* ExtractionError
C14_Witness ==
    /\ xpc = "done" /\ xfmt = "fb2" /\ xlib = "RuntimeError"
    /\ xout.error.class = "ExtractionError"

C16_LimitMessage ==
    (/\ xpc = "done" /\ xfmt = "xml"
     /\ \/ XmlTextLen > 10 * 1024 * 1024
        \/ xlib = "ok" /\ TreeDepth(xtree) > 50) =>
        /\ xout.kind = "raise"
        /\ xout.error.class = "ExtractionError"
        /\ xout.error.msg[1] \notin {"Invalid XML format: ", "Failed to extract XML text"}

\* C17: a well-formed XML document whose deepest element lies more than 50
\* levels below the root is rejected with ExtractionError, one whose
\* deepest element lies at most 50 levels below the root is not rejected.
C17_DepthCeiling ==
    (/\ xpc = "done" /\ xfmt = "xml"
     /\ XmlTextLen <= 10 * 1024 * 1024 /\ xlib = "ok") =>
        IF TreeDepth(xtree) > 50
        THEN xout.kind = "raise" /\ xout.error.class = "ExtractionError"
        ELSE xout.kind = "return"

\* C17 witness: a chain of 51 nested elements beside a leaf is rejected
C17_Witness ==
    /\ xpc = "done" /\ xfmt = "xml" /\ xlib = "ok"
    /\ xtree = ChainWithFirstLeaf(51)
    /\ xout.kind = "raise"

\* C18: an extractor of txt, md, json or html never raises because of
\* bytes that are not valid UTF-8: when the library accepts the decoded
\* text the extractor returns a string.
C18_DecodingNeverFails ==
    (xpc = "done" /\ xfmt \in {"txt", "md", "json", "html"} /\ xlib = "ok") =>
        xout.kind = "return"

C27_AsciiRunsKept ==
    (dpc = "returned" /\ ~Utf8Decode(dbytes).ok) =>
        \A i \in 1..Len(dbytes) : \A j \in i..Len(dbytes) :
            (\A k \in i..j : dbytes[k] \in 32..126) =>
                ContainsSeq(dtext, SubSeq(dbytes, i, j))

\* C30: decode_to_utf8 never reaches its lossy decoding: one of the four
\* strict decodings succeeds for every byte string, ISO-8859-1 at the
\* latest, and the returned string is the result of that strict decoding.
C30_FallbackUnreachable ==
    /\ dpc \in {"new", "returned"} => Latin1Decode(dbytes).ok
    /\ dpc = "returned" =>
          /\ dencoding \in {"utf-8", "utf-16", "windows-1251", "iso-8859-1"}
          /\ StrictDecode(dencoding, dbytes, dhost) = DecodeOk(dtext)

\* C30 witness: bytes that only the last strict decoding accepts
C30_Witness ==
    /\ dpc = "returned" /\ dencoding = "iso-8859-1"
    /\ ~Utf8Decode(dbytes).ok /\ ~Cp1251Decode(dbytes).ok

\* a word of disallowed characters stands between the spaces at i and j
WordBetween(s, i, j) ==
    /\ i + 1 < j /\ s[i] = " " /\ s[j] = " "
    /\ \A k \in (i + 1)..(j - 1) :
          s[k] \notin valid_characters \cup {"\t", "\r", "\f"}

\* s is made of allowed characters other than newline only
OnlyAllowedNoNewline(s) == \A k \in 1..Len(s) : s[k] \in valid_characters \ {"\n"}

C26_StagesInOrder ==
    LET ops == [i \in 1..Len(ulog) |-> ulog[i].op]
        stages == <<"get_extractor", "extract_plain_text", "PlainText">>
    IN  /\ Len(ulog) <= 3 /\ ops = SubSeq(stages, 1, Len(ulog))
        /\ upc \notin {"idle", "start"} =>
              Len(ulog) >= 1 /\ ulog[1].with = ufmt
        /\ Len(ulog) >= 2 =>
              ulog[2].with = ucontent /\ Lower(ufmt) \in DOMAIN ufactory
        /\ (upc = "failed" /\ uraised.class = "UnsupportedFormatError") => Len(ulog) = 1
        /\ (upc = "failed" /\ uraised.class = "ExtractionError") => Len(ulog) = 2
        /\ upc = "returned" => Len(ulog) = 3

\* C26 witness: a format name in upper case was looked up as given and the
\* extraction failed, so that no PlainText was built
C26_Witness ==
    /\ upc = "failed" /\ uraised.class = "ExtractionError"
    /\ Len(ulog) = 2 /\ ufmt # Lower(ufmt)
    /\ ulog[1].with = ufmt

\* C25: every character of a string returned by to_str() is an ASCII
\* letter, an ASCII digit, a space or a newline, and a text made of
\* punctuation signs only is rejected with TextLengthError.
C25_NoPunctuation ==
    /\ pc = "returned" =>
          \A i \in 1..Len(result) :
              result[i] \in ascii_letters \cup digits \cup {" ", "\n"}
    /\ (/\ pc \in {"returned", "to_str_failed", "construction_failed"}
        /\ Len(arg) > 0
        /\ \A i \in 1..Len(arg) : arg[i] \in punctuation) =>
          pc # "returned" /\ err.class = "TextLengthError"

\* C22: a call of extract_text creates one container; when the creation
\* succeeded the container is closed once on every way out (a result, an
\* error of the use case, a failed retrieval of the use case) and never
\* before the try block was left; when the creation failed its error
\* reaches the caller and nothing is closed.
C22_ClosedOnce ==
    /\ acreated <= 1 /\ aclosed <= acreated
    /\ apc \in {"try", "execute", "finally"} => acreated = 1 /\ aclosed = 0
    /\ apc = "done" =>
          /\ acreated = 1
          /\ IF acreate = "ok"
             THEN aclosed = 1
             ELSE aclosed = 0 /\ aout = CreationError

\* C22 witness: the retrieval of the use case failed and the container
\* was closed
C22_Witness ==
    /\ apc = "done" /\ acreate = "ok" /\ aget = "raises"
    /\ aclosed = 1 /\ aout = RetrievalError

\* C23: when the use case returned a string and container.close() raises,
\* extract_text returns that string.
C23_CloseErrorIgnored ==
    (/\ apc = "done" /\ acreate = "ok" /\ aget = "ok"
     /\ aexec.kind = "return" /\ aclose = "raises") => aout = aexec

\* what extract_text(content, fmt) gives when it runs alone
AloneOutcome(content, f, host) ==
    LET looked == GetExtractorOutcome(EXTRACTORS_MAPPING, f)
        extracted == TXTExtractor(content, host)
        cleaned == PlainTextOutcome(CodePointChars(extracted.text))
    IN  IF looked.kind = "raise"
        THEN [kind |-> "raise", text |-> << >>, error |-> looked.error]
        ELSE IF extracted.kind = "raise" THEN extracted
        ELSE IF cleaned.kind = "raise"
        THEN [kind |-> "raise", text |-> << >>, error |-> TextError(cleaned.error)]
        ELSE [kind |-> "return", text |-> cleaned.text, error |-> NoLookupError]

\* C24: however the steps of the calls interleave, every finished call has
\* the outcome its own content and format give when the call runs alone,
\* the shared mapping is never changed, and a call that has not started
\* has none of its variables written by another call.
C24_CallsIndependent ==
    cpc # << >> =>
        /\ cmapping = EXTRACTORS_MAPPING
        /\ \A i \in Calls :
              /\ cpc[i] = "done" =>
                    cout[i] = AloneOutcome(cargs[i].content, cargs[i].fmt, chost)
              /\ cpc[i] = "start" =>
                    /\ cregistry[i] = EmptyMap /\ cextractor[i] = "none"
                    /\ craw[i] = << >> /\ cpending[i] = NoOutcome
                    /\ cout[i] = NoOutcome

\* C24 witness: two finished calls with different arguments, one with a
\* text and one with an error
C24_Witness ==
    /\ cpc # << >>
    /\ cpc[1] = "done" /\ cpc[2] = "done"
    /\ cargs[1].content = <<65, 9, 66>> /\ cout[1].text = <<"A", " ", "B">>
    /\ cargs[2].content = <<255>> /\ cargs[2].fmt = <<"T">>
    /\ cout[2].error.class = "TextLengthError"

\* the whitespace characters between the words of a text file
WordGaps == {32, 9, 13, 10}

\* the words of a text: its maximal runs of characters that are not
\* whitespace, in order
RECURSIVE Words(_)
Words(t) ==
    IF t = << >> THEN << >>
    ELSE LET rest == Words(Tail(t))
         IN  IF Head(t) \in WordGaps THEN
                 IF rest # << >> /\ Head(rest) = << >> THEN rest ELSE <<(<< >>)>> \o rest
             ELSE IF rest = << >> THEN <<(<<Head(t)>>)>>
             ELSE <<(<<Head(t)>> \o Head(rest))>> \o Tail(rest)

\* the words without the empty marks the gaps leave
NonEmptyWords(t) == SelectSeq(Words(t), LAMBDA w : w # << >>)

\* C28: the words of the text the TXT extractor returns are the words of
\* the decoded input: no two words separated by whitespace in the input
\* are joined in the output.
C28_WordsNotMerged ==
    (xpc = "done" /\ xfmt = "txt" /\ xout.kind = "return") =>
        NonEmptyWords(xout.text) = NonEmptyWords(decode_to_utf8(xbytes, xhost).text)

\* C21: when the decoded markdown text holds an image, the text the MD
\* extractor returns has no "!", no bracket, no parenthesis and no
\* character of the URL: of the image only the alt text is left.
C21_ImageToAltText ==
    (xpc = "done" /\ xfmt = "md" /\ xlib = "ok" /\ xout.kind = "return"
       /\ ContainsSeq(decode_to_utf8(xbytes, xhost).text, <<33, 91, 65, 93, 40, 117, 41>>)) =>
        /\ \A i \in 1..Len(xout.text) : xout.text[i] \notin {33, 91, 93, 40, 41, 117}
        /\ ContainsSeq(xout.text, <<65>>)

====
